---- MODULE Spec2Model ----
(***************************************************************************)
(* State.DebugBlock (package state): re-execution of the transactions of   *)
(* one L2 block against the stateless executor and construction of the     *)
(* per-transaction traces.  One invocation is modelled, step by step: pc   *)
(* is the position of the invocation in the function body, the other       *)
(* variables are its locals, what it returns, and a log of the calls it    *)
(* makes to its collaborators (storage, codec, executor, tracers).         *)
(*                                                                         *)
(* Unsigned 64/32-bit values are represented by the integer congruent to   *)
(* them modulo 2^w in the signed range [-2^(w-1), 2^(w-1)): a wrapped      *)
(* subtraction 0 - 1 is the integer -1, which stands for 2^w - 1.          *)
(***************************************************************************)
EXTENDS Integers, Sequences, FiniteSets, TLC

\* ------------------------------------------------------------------ bounds
MaxBlockNumber == 2
MaxTxs == 2
MaxBatchNumber == 1
MaxRawBlocks == 2
MaxBlockResponses == 2
MaxErrorCode == 1

\* --------------------------------------------------------------- constants
\* Fork id of the boundary between the two executor protocols (line 95).
FORKID_ETROG == 7
\* Executor status code that means success (lines 152, 308).
EXECUTOR_ERROR_NO_ERROR == 0
\* uint32 booleans of the executor protocol (lines 100-103, 136, 263-264).
cTrue == 1
cFalse == 0
\* Percentage used when no effective gas price is known (line 77).
MaxEffectivePercentage == 255

\* ------------------------------------------------------------------ values
Hash(kind, n) == [kind |-> kind, of |-> n]

Err(kind) == [kind |-> kind, code |-> 0]
ErrNil == Err("nil")
ErrInvalidData == Err("ErrInvalidData")
ErrEffectiveGasPriceEmpty == Err("ErrEffectiveGasPriceEmpty")

\* executor.ExecutorErr: the domain error of a non-success status code.
ExecutorErr(code) == [kind |-> "ExecutorErr", code |-> code]

Tracers == {"default", "4byteTracer", "callTracer", "flatCallTracer",
            "noopTracer", "prestateTracer", "js", "unknown"}

IsDefaultTracer(cfg) == cfg.Tracer = "default"

\* The trace configurations a caller can pass.  The four toggles are read
\* under the default tracer only: with it every setting is kept, with
\* another tracer the two extreme ones (nothing narrowed, all narrowed).
TraceConfigs ==
    { cfg \in [Tracer : Tracers, DisableStorage : BOOLEAN,
               DisableStack : BOOLEAN, EnableMemory : BOOLEAN,
               EnableReturnData : BOOLEAN] :
        \/ IsDefaultTracer(cfg)
        \/ /\ cfg.DisableStack = cfg.DisableStorage
           /\ cfg.EnableMemory = ~cfg.DisableStorage
           /\ cfg.EnableReturnData = ~cfg.DisableStorage }

\* A transaction of the chain.  to = {} is a contract creation.
Transaction(h) ==
    [hash |-> h,
     to |-> IF h % 2 = 1 THEN {} ELSE {Hash("addr", h)},
     gasPrice |-> IF h = 1 THEN 12 ELSE 5 * (h - 1),
     gas |-> 100 + h,
     value |-> 200 + h,
     data |-> 300 + h,
     signer |-> Hash("sender", h)]

\* The blocks storage can hold under number n: 0..MaxTxs transactions.
L2Blocks(n) ==
    { [Number |-> n,
       Time |-> 10 * n,
       Root |-> Hash("blockRoot", n),
       Coinbase |-> Hash("coinbase", n),
       Transactions |-> [i \in 1..k |-> Transaction(i)]] : k \in 0..MaxTxs }

\* What DebugBlock reads of the previous block: its root and its time.
Header(n) == [Number |-> n, Time |-> 10 * n, Root |-> Hash("blockRoot", n)]

NoBlock == [Number |-> 0, Time |-> 0, Root |-> Hash("none", 0),
            Coinbase |-> Hash("none", 0), Transactions |-> <<>>]

EffectiveGasPrices == {{}, {5}}

Receipt(h, n, idx, egp) ==
    [TxHash |-> h, BlockHash |-> Hash("blockHash", n), BlockNumber |-> n,
     TransactionIndex |-> idx, EffectiveGasPrice |-> egp]

Batch(n) ==
    [BatchNumber |-> n,
     AccInputHash |-> Hash("accInputHash", n),
     StateRoot |-> Hash("batchRoot", n),
     Coinbase |-> Hash("batchCoinbase", n),
     GlobalExitRoot |-> Hash("ger", n),
     Timestamp |-> 1000 + n,
     BatchL2Data |-> <<[kind |-> "stored", a |-> n, b |-> 0]>>]

NoBatch == Batch(0)

\* The batches that can contain block n: the genesis block is in batch 0.
BatchNumbersOf(n) == IF n = 0 THEN {0} ELSE 1..MaxBatchNumber

ForkIds == (FORKID_ETROG - 1)..(FORKID_ETROG + 1)

\* ------------------------------------------------------- unsigned integers
\* a - b on uint64.
U64Sub(a, b) == a - b

\* a > b on uint64: a representative below zero stands for a value >= 2^63.
U64Gt(a, b) == IF (a < 0) = (b < 0) THEN a > b ELSE a < 0

\* uint32(x) of a uint64 x: the representative is unchanged while it fits.
U32(x) == x

\* ------------------------------------------------------------------- codec
\* big.Int.String: the decimal digits of n >= 0, most significant first.
RECURSIVE ToDecimal(_)
ToDecimal(n) == IF n < 10 THEN <<n>> ELSE Append(ToDecimal(n \div 10), n % 10)

RECURSIVE DecimalValue(_)
DecimalValue(s) ==
    IF s = <<>> THEN 0
    ELSE 10 * DecimalValue(SubSeq(s, 1, Len(s) - 1)) + s[Len(s)]

\* big.Int.SetString(s, 10): fails on the empty string and on a non-digit.
SetString(s) ==
    [ok |-> s # <<>> /\ \A k \in 1..Len(s) : s[k] \in 0..9,
     val |-> DecimalValue(s)]

\* CalculateEffectiveGasPricePercentage.
CalculateEffectiveGasPricePercentage(gasPrice, effectiveGasPrice) ==
    IF effectiveGasPrice = {} \/ gasPrice = 0 \/ effectiveGasPrice = {0}
    THEN [err |-> ErrEffectiveGasPriceEmpty, pct |-> 0]
    ELSE LET egp == CHOOSE e \in effectiveGasPrice : TRUE
         IN  IF gasPrice <= egp
             THEN [err |-> ErrNil, pct |-> MaxEffectivePercentage]
             ELSE [err |-> ErrNil,
                   pct |-> ((egp * 256 + gasPrice - 1) \div gasPrice) - 1]

Piece(kind, a, b) == [kind |-> kind, a |-> a, b |-> b]

\* EncodeTransactions: one entry per transaction with its percentage.
EncodeTransactions(txs, percentages, fork) ==
    IF Len(txs) # Len(percentages)
    THEN [err |-> Err("ErrInvalidInput"), data |-> <<>>]
    ELSE [err |-> ErrNil,
          data |-> [k \in 1..Len(txs) |->
                      Piece("tx", txs[k].hash, percentages[k])]]

\* BuildChangeL2Block: the pseudo-transaction that opens a block in a batch.
BuildChangeL2Block(deltaTimestamp, l1InfoTreeIndex) ==
    <<Piece("changeL2Block", deltaTimestamp, l1InfoTreeIndex)>>

\* The raw batches DecodeBatchV2 can return: 0..MaxRawBlocks raw blocks.
RawBlock(p) == [IndexL1InfoTree |-> p - 1]
RawBatches == { [Blocks |-> [p \in 1..k |-> RawBlock(p)]] : k \in 0..MaxRawBlocks }
NoRawBatch == [Blocks |-> <<>>]

\* GetL1InfoTreeDataFromBatchL2Data: one entry per non-zero L1-info-tree
\* index referenced by a block opening of the payload.
L1InfoTreeDataOf(payload) ==
    { [index |-> payload[k].b,
       GlobalExitRoot |-> Hash("l1ger", payload[k].b),
       BlockHashL1 |-> Hash("l1hash", payload[k].b),
       MinTimestamp |-> 500 + payload[k].b] :
        k \in { j \in 1..Len(payload) :
                 payload[j].kind = "changeL2Block" /\ payload[j].b # 0 } }

\* ----------------------------------------------------------------- executor
\* The k-th transaction response of the b-th block response.
TxResponse(b, k) ==
    [CreateAddress |-> Hash("created", 10 * b + k),
     GasLeft |-> 1000 + 10 * b + k,
     GasUsed |-> 2000 + 10 * b + k,
     ReturnValue |-> 3000 + 10 * b + k,
     StateRoot |-> Hash("txRoot", 10 * b + k),
     FullTrace |-> [Steps |-> 4000 + 10 * b + k, Context |-> {}],
     RomError |-> ErrNil]

\* What convertToProcessBatchResponse(V2) can return: 0..MaxBlockResponses
\* block responses; the first of 0..MaxTxs transaction responses, each
\* further one of zero or one.
ResponseShapes ==
    { n \in UNION { [1..nb -> 0..MaxTxs] : nb \in 0..MaxBlockResponses } :
        \A b \in DOMAIN n : b > 1 => n[b] <= 1 }

ConvertedResponses ==
    { [BlockResponses |->
         [b \in DOMAIN n |->
            [TransactionResponses |-> [k \in 1..n[b] |-> TxResponse(b, k)]]]] :
        n \in ResponseShapes }

\* ---------------------------------------------------------------- variables
\* DebugBlock (state)
VARIABLES
    pc,                  \* position of the invocation
    blockNumber,         \* argument
    traceConfig,         \* argument
    l2Block,
    previousL2Block,
    tx,                  \* {} or {the last transaction of the block}
    receipt,             \* {} or {its receipt}
    transactionHash,
    txsToEncode,
    effectivePercentage,
    batch,
    forkId,
    rawBatch,
    firstBlockNumberForBatch,
    rawL2BlockIndex,     \* {} until computed
    transactions,        \* payload sent to the executor (post-boundary)
    batchL2Data,         \* encoding of the block's transactions
    request,             \* the executor request under construction / sent
    virtualBatch,        \* {} or {the virtual batch}
    processBatchResponse, \* {} or {the executor's response}
    convertedResponse,   \* {} or {the reconciled response}, in its branch
    responses,           \* transaction responses to trace
    results,
    calls,               \* collaborators called so far, in order
    failures,            \* errors the called steps returned, in order
    auditLog,            \* requests recorded by eventLog.LogExecutorError(V2)
    retResults,          \* returned result list (<<>> is the nil slice)
    retErr,              \* returned error
    \* the signing service (package service, type Server)
    serverResult,        \* Server.result: order id -> signed payload
    handlers,            \* the goroutines serving HTTP requests
    fatal,               \* the run-time has stopped the process
    stores,              \* payloads written to Server.result, in order
    replies              \* responses sent, in order

args == <<blockNumber, traceConfig>>
blockLocals == <<l2Block, previousL2Block, tx, receipt, transactionHash,
                 txsToEncode, effectivePercentage>>
batchLocals == <<batch, forkId>>
rawLocals == <<rawBatch, firstBlockNumberForBatch, rawL2BlockIndex>>
payloadLocals == <<transactions, batchL2Data>>
returned == <<retResults, retErr>>
service == <<serverResult, handlers, fatal, stores, replies>>

debugBlock == <<pc, args, blockLocals, batchLocals, rawLocals, payloadLocals,
                request, virtualBatch, processBatchResponse,
                convertedResponse, responses, results, calls, failures,
                auditLog, returned>>

vars == <<debugBlock, service>>

NoRequest == [shape |-> "none"]

\* the locals of DebugBlock before its first statement
NotEntered ==
    /\ pc = "GetL2Block"
    /\ l2Block = NoBlock
    /\ previousL2Block = Header(0)
    /\ tx = {}
    /\ receipt = {}
    /\ transactionHash = 0
    /\ txsToEncode = <<>>
    /\ effectivePercentage = <<>>
    /\ batch = NoBatch
    /\ forkId = 0
    /\ rawBatch = NoRawBatch
    /\ firstBlockNumberForBatch = 0
    /\ rawL2BlockIndex = {}
    /\ transactions = <<>>
    /\ batchL2Data = <<>>
    /\ request = NoRequest
    /\ virtualBatch = {}
    /\ processBatchResponse = {}
    /\ convertedResponse = {}
    /\ responses = <<>>
    /\ results = <<>>
    /\ calls = <<>>
    /\ failures = <<>>
    /\ auditLog = <<>>
    /\ retResults = <<>>
    /\ retErr = ErrNil

\* ------------------------------------------------- signing service: values
\* The goroutines net/http runs handlers on, the order ids of the requests
\* and the L1 nonces a signed transaction can carry.
MaxHandlers == 2
MaxOrderId == 2
MaxRequests == 3
MaxNonce == 1

Handlers == 1..MaxHandlers
OrderIds == 1..MaxOrderId

OperateTypeSeq == "seq"
OperateTypeAgg == "agg"
OperateTypes == {OperateTypeSeq, OperateTypeAgg, "other"}

CodeFail == "CodeFail"
CodeSuccess == "CodeSuccess"

\* What a POST can carry: a body that cannot be read, one that is not the
\* JSON of a Request, or a Request.
PostBodies ==
    {[kind |-> "unreadable", RefOrderId |-> 0, OperateType |-> "none"],
     [kind |-> "undecodable", RefOrderId |-> 0, OperateType |-> "none"]}
      \cup { [kind |-> "request", RefOrderId |-> id, OperateType |-> t] :
               id \in OrderIds, t \in OperateTypes }

\* The query of a GET.
GetQuery(id) == [kind |-> "get", RefOrderId |-> id, OperateType |-> "none"]

NoBody == [kind |-> "none", RefOrderId |-> 0, OperateType |-> "none"]

\* hex.EncodeToString(txBin): the signed transaction of a request, which
\* depends on the nonce read from L1 when it is signed.
SignedTx(requestData, nonce) ==
    [order |-> requestData.RefOrderId, op |-> requestData.OperateType,
     nonce |-> nonce]

NoData == [order |-> 0, op |-> "none", nonce |-> 0]

Idle == [pc |-> "idle", body |-> NoBody, data |-> NoData, signed |-> FALSE,
         from |-> 0]

\* srv.result = make(map[string]string), no request being served
NewServer ==
    /\ serverResult = [id \in {} |-> NoData]
    /\ handlers = [h \in Handlers |-> Idle]
    /\ fatal = FALSE
    /\ stores = <<>>
    /\ replies = <<>>

\* ------------------------------------------------------------------- Init
Init ==
    /\ NewServer
    /\ blockNumber \in 0..MaxBlockNumber
    /\ traceConfig \in TraceConfigs
    /\ NotEntered

\* return res, err
Return(res, err) ==
    /\ pc' = "done"
    /\ retResults' = res
    /\ retErr' = err

\* what failures records: the step, its error, and how many calls had been
\* made when it failed
Failure(step, err, at) == [step |-> step, err |-> err, at |-> at]

\* step returned err; the invocation returns nil, err
Fail(step, err) ==
    /\ failures' = Append(failures, Failure(step, err, Len(calls')))
    /\ Return(<<>>, err)

\* a Go run-time panic (index out of range): nothing is returned
Panic ==
    /\ pc' = "panic"
    /\ UNCHANGED <<failures, returned>>

Goto(next) ==
    /\ pc' = next
    /\ UNCHANGED <<failures, returned>>

Called(name) == calls' = Append(calls, name)

\* ------------------------------------------------------- loading the block
StorageReads == {"GetL2BlockByNumber", "GetTransactionReceipt",
                 "GetBatchByL2BlockNumber",
                 "GetFirstL2BlockNumberForBatchNumber", "GetVirtualBatch",
                 "GetBlockByNumber", "GetL1InfoTreeDataFromBatchL2Data"}

ExecutorCalls == {"ProcessBatch", "ProcessBatchV2"}

\* l2Block, err := s.GetL2BlockByNumber(ctx, blockNumber, dbTx)
GetL2Block ==
    /\ pc = "GetL2Block"
    /\ Called("GetL2BlockByNumber")
    /\ \/ /\ Fail("GetL2BlockByNumber", Err("ErrNotFound"))
          /\ UNCHANGED l2Block
       \/ /\ \E b \in L2Blocks(blockNumber) : l2Block' = b
          /\ Goto("GetPreviousL2Block")
    /\ UNCHANGED <<service, args, previousL2Block, tx, receipt,
                   transactionHash, txsToEncode, effectivePercentage,
                   batchLocals, rawLocals, payloadLocals, request,
                   virtualBatch, processBatchResponse, responses,
                   convertedResponse, results, auditLog>>

PreviousL2BlockNumber(n) == IF n > 0 THEN n - 1 ELSE 0

\* previousL2Block, err := s.GetL2BlockByNumber(ctx, previousL2BlockNumber, dbTx)
GetPreviousL2Block ==
    /\ pc = "GetPreviousL2Block"
    /\ Called("GetL2BlockByNumber")
    /\ \/ /\ Fail("GetL2BlockByNumber", Err("ErrNotFound"))
          /\ UNCHANGED previousL2Block
       \/ /\ previousL2Block' = Header(PreviousL2BlockNumber(blockNumber))
          /\ Goto("GetReceipt")
    /\ UNCHANGED <<service, args, l2Block, tx, receipt, transactionHash,
                   txsToEncode, effectivePercentage, batchLocals, rawLocals,
                   payloadLocals, request, virtualBatch, processBatchResponse,
                   responses, convertedResponse, results, auditLog>>

LastOf(seq) == seq[Len(seq)]

The(opt) == CHOOSE x \in opt : TRUE

\* the last transaction of the block and its receipt, when the block has any
GetReceipt ==
    /\ pc = "GetReceipt"
    /\ IF Len(l2Block.Transactions) > 0
       THEN /\ Called("GetTransactionReceipt")
            /\ tx' = {LastOf(l2Block.Transactions)}
            /\ transactionHash' = LastOf(l2Block.Transactions).hash
            /\ \/ /\ Fail("GetTransactionReceipt", Err("ErrNotFound"))
                  /\ UNCHANGED receipt
               \/ /\ \E egp \in EffectiveGasPrices :
                        receipt' = {Receipt(LastOf(l2Block.Transactions).hash,
                                            l2Block.Number,
                                            Len(l2Block.Transactions) - 1, egp)}
                  /\ Goto("EncodeLoop")
       ELSE /\ Goto("EncodeLoop")
            /\ UNCHANGED <<tx, receipt, transactionHash, calls>>
    /\ UNCHANGED <<service, args, l2Block, previousL2Block, txsToEncode,
                   effectivePercentage, batchLocals, rawLocals, payloadLocals,
                   request, virtualBatch, processBatchResponse, responses,
                   convertedResponse, results, auditLog>>

\* egpPercentage of one pass of the loop over the block's transactions
EgpPercentage(txGasPrice, effectiveGasPrice) ==
    LET r == CalculateEffectiveGasPricePercentage(txGasPrice, effectiveGasPrice)
    IN  IF r.err = ErrEffectiveGasPriceEmpty THEN MaxEffectivePercentage
        ELSE r.pct

\* the loop that fills txsToEncode and effectivePercentage
EncodeLoop ==
    /\ pc = "EncodeLoop"
    /\ IF Len(l2Block.Transactions) > 0 /\ (tx = {} \/ receipt = {})
       THEN /\ Panic
            /\ UNCHANGED <<txsToEncode, effectivePercentage>>
       ELSE /\ txsToEncode' = l2Block.Transactions
            /\ effectivePercentage' =
                 [i \in 1..Len(l2Block.Transactions) |->
                    EgpPercentage(The(tx).gasPrice, The(receipt).EffectiveGasPrice)]
            /\ Goto("GetBatch")
    /\ UNCHANGED <<service, args, l2Block, previousL2Block, tx, receipt,
                   transactionHash, batchLocals, rawLocals, payloadLocals,
                   request, virtualBatch, processBatchResponse, responses,
                   convertedResponse, results, calls, auditLog>>

\* batch, err := s.GetBatchByL2BlockNumber(...); forkId := s.GetForkIDByBatchNumber(...)
GetBatch ==
    /\ pc = "GetBatch"
    /\ \/ /\ Called("GetBatchByL2BlockNumber")
          /\ Fail("GetBatchByL2BlockNumber", Err("ErrNotFound"))
          /\ UNCHANGED batchLocals
       \/ /\ calls' = calls \o <<"GetBatchByL2BlockNumber", "GetForkIDByBatchNumber">>
          /\ \E n \in BatchNumbersOf(l2Block.Number) : batch' = Batch(n)
          /\ \E f \in ForkIds : forkId' = f
          /\ Goto("SelectFork")
    /\ UNCHANGED <<service, args, blockLocals, rawLocals, payloadLocals,
                   request, virtualBatch, processBatchResponse, responses,
                   convertedResponse, results, auditLog>>

\* ------------------------------------------------------ pre-boundary path
\* faulty variant: the boundary fork itself takes the pre-boundary path
IsPreBoundaryInclusive(fork) == fork <= FORKID_ETROG

IsPreBoundary(fork) == fork < FORKID_ETROG

\* faulty variant: memory capture stays enabled whatever the caller asks
TraceConfigRequestKeepMemory(cfg, txHash) ==
    [TxHashToGenerateFullTrace |-> txHash,
     DisableStorage |->
        IF IsDefaultTracer(cfg) /\ cfg.DisableStorage THEN cTrue ELSE cFalse,
     DisableStack |->
        IF IsDefaultTracer(cfg) /\ cfg.DisableStack THEN cTrue ELSE cFalse,
     EnableMemory |-> cTrue,
     EnableReturnData |->
        IF IsDefaultTracer(cfg) /\ ~cfg.EnableReturnData THEN cFalse ELSE cTrue]

\* traceConfigRequest := &executor.TraceConfig{...} and its narrowing
TraceConfigRequest(cfg, txHash) ==
    [TxHashToGenerateFullTrace |-> txHash,
     DisableStorage |->
        IF IsDefaultTracer(cfg) /\ cfg.DisableStorage THEN cTrue ELSE cFalse,
     DisableStack |->
        IF IsDefaultTracer(cfg) /\ cfg.DisableStack THEN cTrue ELSE cFalse,
     EnableMemory |->
        IF IsDefaultTracer(cfg) /\ ~cfg.EnableMemory THEN cFalse ELSE cTrue,
     EnableReturnData |->
        IF IsDefaultTracer(cfg) /\ ~cfg.EnableReturnData THEN cFalse ELSE cTrue]

\* processBatchRequest := &executor.ProcessBatchRequest{...}
\* (ChainId, ContextId are configuration and a fresh uuid: not modelled)
ProcessBatchRequest(b, prev, data, fork, cfg, txHash) ==
    [shape |-> "V1",
     OldBatchNum |-> U64Sub(b.BatchNumber, 1),
     OldStateRoot |-> prev.Root,
     OldAccInputHash |-> b.AccInputHash,
     BatchL2Data |-> data,
     Coinbase |-> b.Coinbase,
     UpdateMerkleTree |-> cFalse,
     ForkId |-> fork,
     TraceConfig |-> TraceConfigRequest(cfg, txHash),
     GlobalExitRoot |-> b.GlobalExitRoot,
     EthTimestamp |-> b.Timestamp]

\* forkId < FORKID_ETROG: trace configuration, payload and request
BuildRequestV1 ==
    /\ pc = "SelectFork"
    /\ IsPreBoundary(forkId)
    /\ Called("EncodeTransactions")
    /\ LET enc == EncodeTransactions(txsToEncode, effectivePercentage, forkId)
       IN  IF enc.err # ErrNil
           THEN /\ Fail("EncodeTransactions", enc.err)
                /\ UNCHANGED <<batchL2Data, request>>
           ELSE /\ batchL2Data' = enc.data
                /\ request' = ProcessBatchRequest(batch, previousL2Block, enc.data,
                                                  forkId, traceConfig, transactionHash)
                /\ Goto("ProcessBatch")
    /\ UNCHANGED <<service, args, blockLocals, batchLocals, rawLocals,
                   transactions, virtualBatch, processBatchResponse,
                   responses, convertedResponse, results, auditLog>>

ErrorCodes == 0..MaxErrorCode

\* faulty variant: the executor error is returned without the audit log
SendToNoAudit(call, next) ==
    /\ Called(call)
    /\ \/ /\ Fail(call, Err("ErrExecutorUnavailable"))
          /\ UNCHANGED processBatchResponse
       \/ \E code \in ErrorCodes :
            /\ processBatchResponse' = {[Error |-> code]}
            /\ IF code # EXECUTOR_ERROR_NO_ERROR
               THEN Fail(call, ExecutorErr(code))
               ELSE Goto(next)
    /\ UNCHANGED <<service, args, blockLocals, batchLocals, rawLocals,
                   payloadLocals, request, virtualBatch, responses,
                   convertedResponse, results, auditLog>>

\* s.executorClient.ProcessBatch / ProcessBatchV2 and the check of its status
SendTo(call, next) ==
    /\ Called(call)
    /\ \/ /\ Fail(call, Err("ErrExecutorUnavailable"))
          /\ UNCHANGED <<auditLog, processBatchResponse>>
       \/ \E code \in ErrorCodes :
            /\ processBatchResponse' = {[Error |-> code]}
            /\ IF code # EXECUTOR_ERROR_NO_ERROR
               THEN /\ auditLog' = Append(auditLog, [code |-> code, request |-> request])
                    /\ Fail(call, ExecutorErr(code))
               ELSE /\ Goto(next)
                    /\ UNCHANGED auditLog
    /\ UNCHANGED <<service, args, blockLocals, batchLocals, rawLocals,
                   payloadLocals, request, virtualBatch, responses,
                   convertedResponse, results>>

ProcessBatch ==
    /\ pc = "ProcessBatch"
    /\ SendTo("ProcessBatch", "DecodeTxsV1")

\* faulty variant: every decode error is tolerated
DecodeTxsTolerant(next) ==
    /\ Called("DecodeTxs")
    /\ \/ Goto(next)
       \/ /\ \E e \in {ErrInvalidData, Err("ErrDecode")} :
                failures' = Append(failures, Failure("DecodeTxs", e, Len(calls')))
          /\ pc' = next
          /\ UNCHANGED returned
    /\ UNCHANGED <<service, args, blockLocals, batchLocals, rawLocals,
                   payloadLocals, request, virtualBatch, processBatchResponse,
                   responses, convertedResponse, results, auditLog>>

\* faulty variant: no decode error is tolerated
DecodeTxsStrict(next) ==
    /\ Called("DecodeTxs")
    /\ \/ Goto(next)
       \/ \E e \in {ErrInvalidData, Err("ErrDecode")} : Fail("DecodeTxs", e)
    /\ UNCHANGED <<service, args, blockLocals, batchLocals, rawLocals,
                   payloadLocals, request, virtualBatch, processBatchResponse,
                   responses, convertedResponse, results, auditLog>>

\* txs, _, _, err := DecodeTxs(batchL2Data, forkId): for logging only
DecodeTxsThen(next) ==
    /\ Called("DecodeTxs")
    /\ \/ Goto(next)
       \/ /\ failures' = Append(failures,
                                 Failure("DecodeTxs", ErrInvalidData, Len(calls')))
          /\ pc' = next
          /\ UNCHANGED returned
       \/ Fail("DecodeTxs", Err("ErrDecode"))
    /\ UNCHANGED <<service, args, blockLocals, batchLocals, rawLocals,
                   payloadLocals, request, virtualBatch, processBatchResponse,
                   responses, convertedResponse, results, auditLog>>

DecodeTxsV1 ==
    /\ pc = "DecodeTxsV1"
    /\ DecodeTxsThen("ConvertV1")

\* convertedResponse.BlockResponses[0].TransactionResponses
FirstBlockResponse(converted) ==
    converted.BlockResponses[1].TransactionResponses

\* convertedResponse, err := s.convertToProcessBatchResponse(V2)(...)
\* responses = convertedResponse.BlockResponses[0].TransactionResponses
ConvertThen(call) ==
    /\ Called(call)
    /\ \/ /\ Fail(call, Err("ErrConvert"))
          /\ UNCHANGED <<responses, convertedResponse>>
       \/ \E converted \in ConvertedResponses :
            /\ convertedResponse' = {converted}
            /\ IF Len(converted.BlockResponses) = 0
               THEN /\ Panic
                    /\ UNCHANGED responses
               ELSE /\ responses' = FirstBlockResponse(converted)
                    /\ Goto("SanityCheck")
    /\ UNCHANGED <<service, args, blockLocals, batchLocals, rawLocals,
                   payloadLocals, request, virtualBatch, results, auditLog,
                   processBatchResponse>>

ConvertV1 ==
    /\ pc = "ConvertV1"
    /\ ConvertThen("convertToProcessBatchResponse")

\* ----------------------------------------------------- post-boundary path
\* faulty variant: the genesis block is taken for the injected block too
IsInjectedTxUpToOne(block) == block.Number <= 1

\* isInjectedTx := l2Block.NumberU64() == 1
IsInjectedTx(block) == block.Number = 1

\* faulty variant: the caller's toggles narrow the capture under any tracer
TraceConfigRequestV2AnyTracer(cfg, txHash) ==
    [TxHashToGenerateFullTrace |-> txHash,
     DisableStorage |-> IF cfg.DisableStorage THEN cTrue ELSE cFalse,
     DisableStack |-> IF cfg.DisableStack THEN cTrue ELSE cFalse,
     EnableMemory |-> IF ~cfg.EnableMemory THEN cFalse ELSE cTrue,
     EnableReturnData |-> IF ~cfg.EnableReturnData THEN cFalse ELSE cTrue]

\* traceConfigRequestV2 := &executor.TraceConfigV2{...} and its narrowing
TraceConfigRequestV2(cfg, txHash) ==
    [TxHashToGenerateFullTrace |-> txHash,
     DisableStorage |->
        IF IsDefaultTracer(cfg) /\ cfg.DisableStorage THEN cTrue ELSE cFalse,
     DisableStack |->
        IF IsDefaultTracer(cfg) /\ cfg.DisableStack THEN cTrue ELSE cFalse,
     EnableMemory |->
        IF IsDefaultTracer(cfg) /\ ~cfg.EnableMemory THEN cFalse ELSE cTrue,
     EnableReturnData |->
        IF IsDefaultTracer(cfg) /\ ~cfg.EnableReturnData THEN cFalse ELSE cTrue]

\* faulty variant: the executor is asked to persist the resulting state
ProcessBatchRequestV2Persisting(b, block, prev, payload, fork, cfg, txHash) ==
    [shape |-> "V2",
     OldBatchNum |-> U64Sub(b.BatchNumber, 1),
     OldStateRoot |-> prev.Root,
     OldAccInputHash |-> b.AccInputHash,
     BatchL2Data |-> payload,
     Coinbase |-> block.Coinbase,
     UpdateMerkleTree |-> cTrue,
     ForkId |-> fork,
     TraceConfig |-> TraceConfigRequestV2(cfg, txHash),
     L1InfoRoot |-> Hash("mockL1InfoRoot", 0),
     SkipFirstChangeL2Block |-> cFalse,
     SkipWriteBlockInfoRoot |-> cTrue,
     ForcedBlockhashL1 |-> {},
     SkipVerifyL1InfoRoot |-> cFalse,
     L1InfoTreeData |-> {}]

\* processBatchRequestV2 := &executor.ProcessBatchRequestV2{...}
\* (ChainId, ContextId, TimestampLimit are configuration, a fresh uuid and
\* the wall clock: not modelled)
ProcessBatchRequestV2(b, block, prev, payload, fork, cfg, txHash) ==
    [shape |-> "V2",
     OldBatchNum |-> U64Sub(b.BatchNumber, 1),
     OldStateRoot |-> prev.Root,
     OldAccInputHash |-> b.AccInputHash,
     BatchL2Data |-> payload,
     Coinbase |-> block.Coinbase,
     UpdateMerkleTree |-> cFalse,
     ForkId |-> fork,
     TraceConfig |-> TraceConfigRequestV2(cfg, txHash),
     L1InfoRoot |-> Hash("mockL1InfoRoot", 0),
     SkipFirstChangeL2Block |-> cFalse,
     SkipWriteBlockInfoRoot |-> cTrue,
     ForcedBlockhashL1 |-> {},
     SkipVerifyL1InfoRoot |-> cFalse,
     L1InfoTreeData |-> {}]

\* injected block: the payload is the stored batch payload
BuildRequestV2Injected ==
    /\ pc = "SelectFork"
    /\ ~IsPreBoundary(forkId)
    /\ IsInjectedTx(l2Block)
    /\ transactions' = batch.BatchL2Data
    /\ request' = ProcessBatchRequestV2(batch, l2Block, previousL2Block,
                                        batch.BatchL2Data, forkId, traceConfig,
                                        transactionHash)
    /\ Goto("GetVirtualBatch")
    /\ UNCHANGED <<service, args, blockLocals, batchLocals, rawLocals,
                   batchL2Data, virtualBatch, processBatchResponse, responses,
                   convertedResponse, results, calls, auditLog>>

\* rawBatch, err := DecodeBatchV2(batch.BatchL2Data)
DecodeBatchV2 ==
    /\ pc = "SelectFork"
    /\ ~IsPreBoundary(forkId)
    /\ ~IsInjectedTx(l2Block)
    /\ Called("DecodeBatchV2")
    /\ \/ /\ Fail("DecodeBatchV2", Err("ErrMalformedBatch"))
          /\ UNCHANGED rawBatch
       \/ /\ \E rb \in RawBatches : rawBatch' = rb
          /\ Goto("GetFirstL2BlockNumber")
    /\ UNCHANGED <<service, args, blockLocals, batchLocals,
                   firstBlockNumberForBatch, rawL2BlockIndex, payloadLocals,
                   request, virtualBatch, processBatchResponse, responses,
                   convertedResponse, results, auditLog>>

\* firstBlockNumberForBatch, err := s.GetFirstL2BlockNumberForBatchNumber(...)
GetFirstL2BlockNumber ==
    /\ pc = "GetFirstL2BlockNumber"
    /\ Called("GetFirstL2BlockNumberForBatchNumber")
    /\ \/ /\ Fail("GetFirstL2BlockNumberForBatchNumber", Err("ErrNotFound"))
          /\ UNCHANGED firstBlockNumberForBatch
       \/ /\ \E f \in 0..MaxBlockNumber : firstBlockNumberForBatch' = f
          /\ Goto("ChangeL2Block")
    /\ UNCHANGED <<service, args, blockLocals, batchLocals, rawBatch,
                   rawL2BlockIndex, payloadLocals, request, virtualBatch,
                   processBatchResponse, responses, convertedResponse,
                   results, auditLog>>

\* rawL2BlockIndex > uint64(len(rawBatch.Blocks)-1)
IndexTooBig(index, raw) == U64Gt(index, Len(raw.Blocks) - 1)

\* faulty variant: the first raw block of the batch, whatever the index
RawL2BlockFirst(raw, index) == raw.Blocks[1]

\* rawL2Block := rawBatch.Blocks[rawL2BlockIndex]
RawL2Block(raw, index) == raw.Blocks[index + 1]

\* the block index in the raw batch, the ChangeL2Block transaction, the
\* encoded transactions and the request
ChangeL2Block ==
    /\ pc = "ChangeL2Block"
    /\ LET index == U64Sub(l2Block.Number, firstBlockNumberForBatch)
           enc == EncodeTransactions(txsToEncode, effectivePercentage, forkId)
       IN  /\ rawL2BlockIndex' = {index}
           /\ IF IndexTooBig(index, rawBatch)
              THEN \* return nil, err with the err of the last call, which is nil
                   /\ Return(<<>>, ErrNil)
                   /\ UNCHANGED <<failures, calls, payloadLocals, request>>
              ELSE IF ~(index >= 0 /\ index < Len(rawBatch.Blocks))
              THEN \* rawBatch.Blocks[rawL2BlockIndex] out of range
                   /\ Panic
                   /\ UNCHANGED <<calls, payloadLocals, request>>
              ELSE /\ Called("EncodeTransactions")
                   /\ IF enc.err # ErrNil
                      THEN /\ Fail("EncodeTransactions", enc.err)
                           /\ UNCHANGED <<payloadLocals, request>>
                      ELSE LET rawL2Block == RawL2Block(rawBatch, index)
                               deltaTimestamp ==
                                   U32(U64Sub(l2Block.Time, previousL2Block.Time))
                               payload ==
                                   BuildChangeL2Block(deltaTimestamp,
                                                      rawL2Block.IndexL1InfoTree)
                                     \o enc.data
                           IN  /\ batchL2Data' = enc.data
                               /\ transactions' = payload
                               /\ request' =
                                    ProcessBatchRequestV2(batch, l2Block,
                                        previousL2Block, payload, forkId,
                                        traceConfig, transactionHash)
                               /\ Goto("GetL1InfoTreeData")
    /\ UNCHANGED <<service, args, blockLocals, batchLocals, rawBatch,
                   firstBlockNumberForBatch, virtualBatch,
                   processBatchResponse, responses, convertedResponse,
                   results, auditLog>>

\* The virtual batch of batch n and the hash of the L1 block numbered m.
VirtualBatch(n) == [BatchNumber |-> n, BlockNumber |-> 100 + n]
L1BlockHash(m) == Hash("l1BlockHash", m)

\* virtualBatch, err := s.GetVirtualBatch(ctx, batch.BatchNumber, dbTx)
GetVirtualBatch ==
    /\ pc = "GetVirtualBatch"
    /\ Called("GetVirtualBatch")
    /\ \/ /\ Fail("GetVirtualBatch", Err("ErrNotFound"))
          /\ UNCHANGED virtualBatch
       \/ /\ virtualBatch' = {VirtualBatch(batch.BatchNumber)}
          /\ Goto("GetL1Block")
    /\ UNCHANGED <<service, args, blockLocals, batchLocals, rawLocals,
                   payloadLocals, request, processBatchResponse, responses,
                   convertedResponse, results, auditLog>>

\* l1Block, err := s.GetBlockByNumber(ctx, virtualBatch.BlockNumber, dbTx)
GetL1Block ==
    /\ pc = "GetL1Block"
    /\ Called("GetBlockByNumber")
    /\ \/ /\ Fail("GetBlockByNumber", Err("ErrNotFound"))
          /\ UNCHANGED request
       \/ /\ request' =
               [request EXCEPT
                  !.ForcedBlockhashL1 = {L1BlockHash(The(virtualBatch).BlockNumber)},
                  !.SkipVerifyL1InfoRoot = 1]
          /\ Goto("ProcessBatchV2")
    /\ UNCHANGED <<service, args, blockLocals, batchLocals, rawLocals,
                   payloadLocals, virtualBatch, processBatchResponse,
                   responses, convertedResponse, results, auditLog>>

\* faulty variant: the minimum timestamp is left at its zero value
L1DataV2OfNoTimestamp(l1InfoTreeData) ==
    { [index |-> v.index, GlobalExitRoot |-> v.GlobalExitRoot,
       BlockHashL1 |-> v.BlockHashL1, MinTimestamp |-> 0] :
        v \in l1InfoTreeData }

\* executor.L1DataV2 entries of the request, one per resolved index
L1DataV2Of(l1InfoTreeData) ==
    { [index |-> v.index, GlobalExitRoot |-> v.GlobalExitRoot,
       BlockHashL1 |-> v.BlockHashL1, MinTimestamp |-> v.MinTimestamp] :
        v \in l1InfoTreeData }

\* l1InfoTreeData, _, _, err := s.GetL1InfoTreeDataFromBatchL2Data(ctx, transactions, dbTx)
GetL1InfoTreeData ==
    /\ pc = "GetL1InfoTreeData"
    /\ Called("GetL1InfoTreeDataFromBatchL2Data")
    /\ \/ /\ Fail("GetL1InfoTreeDataFromBatchL2Data", Err("ErrNotFound"))
          /\ UNCHANGED request
       \/ /\ LET l1InfoTreeData == L1InfoTreeDataOf(transactions)
             IN  request' =
                   IF Cardinality(l1InfoTreeData) > 0
                   THEN [request EXCEPT
                           !.L1InfoTreeData = L1DataV2Of(l1InfoTreeData),
                           !.SkipVerifyL1InfoRoot = cTrue]
                   ELSE request
          /\ Goto("ProcessBatchV2")
    /\ UNCHANGED <<service, args, blockLocals, batchLocals, rawLocals,
                   payloadLocals, virtualBatch, processBatchResponse,
                   responses, convertedResponse, results, auditLog>>

ProcessBatchV2 ==
    /\ pc = "ProcessBatchV2"
    /\ SendTo("ProcessBatchV2",
              IF IsInjectedTx(l2Block) THEN "ConvertV2" ELSE "DecodeTxsV2")

DecodeTxsV2 ==
    /\ pc = "DecodeTxsV2"
    /\ DecodeTxsThen("ConvertV2")

ConvertV2 ==
    /\ pc = "ConvertV2"
    /\ ConvertThen("convertToProcessBatchResponseV2")

\* ------------------------------------------------------------ trace loop
\* faulty variant: the counts are not compared
CountMismatchIgnored(resps, block) == FALSE

\* len(responses) != len(l2Block.Transactions())
CountMismatch(resps, block) == Len(resps) # Len(block.Transactions)

\* if len(responses) != len(l2Block.Transactions()) { return nil, ... }
\* (convertedResponse is local to the branch of line 95, which ends here)
SanityCheck ==
    /\ pc = "SanityCheck"
    /\ UNCHANGED calls
    /\ convertedResponse' = {}
    /\ IF CountMismatch(responses, l2Block)
       THEN Fail("SanityCheck", Err("ErrTxHashNotFound"))
       ELSE Goto("TraceLoop")
    /\ UNCHANGED <<service, args, blockLocals, batchLocals, rawLocals,
                   payloadLocals, request, virtualBatch, processBatchResponse,
                   responses, results, auditLog>>

\* result := &runtime.ExecutionResult{...}
ExecutionResult(response) ==
    [CreateAddress |-> response.CreateAddress,
     GasLeft |-> response.GasLeft,
     GasUsed |-> response.GasUsed,
     ReturnValue |-> response.ReturnValue,
     StateRoot |-> response.StateRoot,
     FullTrace |-> response.FullTrace,
     Err |-> response.RomError,
     TraceResult |-> {}]

\* context := instrumentation.Context{...} and its call kind
\* (Time, the wall-clock duration of the executor call, is not modelled)
InstrumentationContext(t, sender, result, oldStateRoot) ==
    [From |-> sender,
     Input |-> t.data,
     Gas |-> t.gas,
     Value |-> t.value,
     Output |-> result.ReturnValue,
     GasPrice |-> ToDecimal(t.gasPrice),
     OldStateRoot |-> oldStateRoot,
     GasUsed |-> result.GasUsed,
     Type |-> IF t.to = {} THEN "CREATE" ELSE "CALL",
     To |-> IF t.to = {} THEN result.CreateAddress ELSE The(t.to)]

\* faulty variant: an unknown name falls back to the no-op tracer
TracerConstructorLenient(cfg) ==
    CASE cfg.Tracer = "4byteTracer" -> "NewFourByteTracer"
      [] cfg.Tracer = "callTracer" -> "NewCallTracer"
      [] cfg.Tracer = "flatCallTracer" -> "NewFlatCallTracer"
      [] cfg.Tracer = "noopTracer" -> "NewNoopTracer"
      [] cfg.Tracer = "prestateTracer" -> "NewPrestateTracer"
      [] cfg.Tracer = "js" -> "NewJsTracer"
      [] OTHER -> "NewNoopTracer"

\* the constructor the tracer selection calls for a non-default tracer
TracerConstructor(cfg) ==
    CASE cfg.Tracer = "4byteTracer" -> "NewFourByteTracer"
      [] cfg.Tracer = "callTracer" -> "NewCallTracer"
      [] cfg.Tracer = "flatCallTracer" -> "NewFlatCallTracer"
      [] cfg.Tracer = "noopTracer" -> "NewNoopTracer"
      [] cfg.Tracer = "prestateTracer" -> "NewPrestateTracer"
      [] cfg.Tracer = "js" -> "NewJsTracer"
      [] OTHER -> "invalid"

WithTrace(result, context, trace) ==
    [result EXCEPT !.FullTrace.Context = {context}, !.TraceResult = {trace}]

\* faulty variant: the result is put in front of the list
PrependResult(list, result) == <<result>> \o list

\* results = append(results, result)
AppendResult(list, result) == Append(list, result)

\* faulty variant: the storage view is pinned to the previous batch's root
FakeDBOfPreviousBatch(b) == [stateRoot |-> Batch(b.BatchNumber - 1).StateRoot]

\* fakeDB := &FakeDB{State: s, stateRoot: batch.StateRoot.Bytes()}
FakeDB(b) == [stateRoot |-> b.StateRoot]

\* faulty variant: the results traced so far come back with the error
FailedToCreateTracerPartial(constructor) ==
    /\ failures' = Append(failures, Failure(constructor, Err("ErrCreateTracer"),
                                            Len(calls')))
    /\ Return(results, Err("ErrCreateTracer"))

\* return nil, fmt.Errorf("failed to create ...Tracer, err: %v", err)
FailedToCreateTracer(constructor) ==
    Fail(constructor, Err("ErrCreateTracer"))

\* one pass of the loop over responses
TraceTx ==
    /\ pc = "TraceLoop"
    /\ Len(results) < Len(responses)
    /\ LET response == responses[Len(results) + 1]
           result == ExecutionResult(response)
       IN  IF tx = {}
           THEN \* *tx of a nil tx
                /\ Panic
                /\ UNCHANGED <<results, calls>>
           ELSE
           \/ \* senderAddress, err := GetSender(*tx) fails
              /\ Called("GetSender")
              /\ Fail("GetSender", Err("ErrInvalidSig"))
              /\ UNCHANGED results
           \/ LET context == InstrumentationContext(The(tx), The(tx).signer, result,
                                                    previousL2Block.Root)
                  gasPrice == SetString(context.GasPrice)
              IN  IF ~gasPrice.ok
                  THEN /\ Called("GetSender")
                       /\ Fail("SetString", Err("ErrParseGasPrice"))
                       /\ UNCHANGED results
                  ELSE IF receipt = {}
                  THEN \* receipt.BlockHash of a nil receipt
                       /\ Called("GetSender")
                       /\ Panic
                       /\ UNCHANGED results
                  ELSE IF IsDefaultTracer(traceConfig)
                  THEN /\ calls' = calls \o <<"GetSender", "ParseTrace">>
                       /\ \/ /\ Fail("ParseTrace", Err("ErrParseTrace"))
                             /\ UNCHANGED results
                          \/ /\ results' =
                                  AppendResult(results,
                                     WithTrace(result, context,
                                        [tracer |-> "structLogger",
                                         of |-> result.FullTrace.Steps,
                                         stateRoot |-> Hash("none", 0),
                                         gasPrice |-> 0]))
                             /\ Goto("TraceLoop")
                  ELSE IF TracerConstructor(traceConfig) = "invalid"
                  THEN /\ Called("GetSender")
                       /\ Fail("SelectTracer", Err("ErrInvalidTracer"))
                       /\ UNCHANGED results
                  ELSE
                  \/ /\ calls' = calls \o <<"GetSender", TracerConstructor(traceConfig)>>
                     /\ FailedToCreateTracer(TracerConstructor(traceConfig))
                     /\ UNCHANGED results
                  \/ /\ calls' = calls \o <<"GetSender", TracerConstructor(traceConfig),
                                            "NewFakeEVM", "buildTrace">>
                     /\ \/ /\ Fail("buildTrace", Err("ErrBuildTrace"))
                           /\ UNCHANGED results
                        \/ /\ results' =
                                AppendResult(results,
                                   WithTrace(result, context,
                                      [tracer |-> traceConfig.Tracer,
                                       of |-> result.FullTrace.Steps,
                                       stateRoot |-> FakeDB(batch).stateRoot,
                                       gasPrice |-> gasPrice.val]))
                           /\ Goto("TraceLoop")
    /\ UNCHANGED <<service, args, blockLocals, batchLocals, rawLocals,
                   payloadLocals, request, virtualBatch, processBatchResponse,
                   responses, convertedResponse, auditLog>>

\* return results, nil
ReturnResults ==
    /\ pc = "TraceLoop"
    /\ Len(results) = Len(responses)
    /\ Return(results, ErrNil)
    /\ UNCHANGED <<service, args, blockLocals, batchLocals, rawLocals,
                   payloadLocals, request, virtualBatch, processBatchResponse,
                   responses, convertedResponse, results, calls, failures,
                   auditLog>>

Next ==
    \/ GetL2Block
    \/ GetPreviousL2Block
    \/ GetReceipt
    \/ EncodeLoop
    \/ GetBatch
    \/ BuildRequestV1
    \/ ProcessBatch
    \/ DecodeTxsV1
    \/ ConvertV1
    \/ BuildRequestV2Injected
    \/ DecodeBatchV2
    \/ GetFirstL2BlockNumber
    \/ ChangeL2Block
    \/ GetVirtualBatch
    \/ GetL1Block
    \/ GetL1InfoTreeData
    \/ ProcessBatchV2
    \/ DecodeTxsV2
    \/ ConvertV2
    \/ SanityCheck
    \/ TraceTx
    \/ ReturnResults

Spec == Init /\ [][Next]_vars

\* ================================================ signing service (Server)
\* faulty variant: no order id is ever found in the map
ExistsNever(map, id) == FALSE

\* _, ok := s.result[id]
Exists(map, id) == id \in DOMAIN map

\* s.result[id] = data
Store(map, id, data) ==
    [k \in DOMAIN map \cup {id} |-> IF k = id THEN data ELSE map[k]]

\* the handlers that are serving a request
Active == {h \in Handlers : handlers[h].pc # "idle"}

\* response := Response{Code: CodeFail, Data: "", DetailMsg: "", ...} with
\* the fields the handler sets, and what the handler did to produce it
Response(h, method, success, detail, data) ==
    [method |-> method,
     id |-> handlers[h].body.RefOrderId,
     Code |-> IF success THEN CodeSuccess ELSE CodeFail,
     Success |-> success,
     DetailMsg |-> detail,
     Data |-> data,
     signed |-> handlers[h].signed,
     from |-> handlers[h].from,
     at |-> 0]

\* sendJSONResponse(w, response); return
Reply(h, response) ==
    /\ replies' = Append(replies, [response EXCEPT !.at = Len(stores')])
    /\ handlers' = [handlers EXCEPT ![h] = Idle]

\* net/http hands a POST to PostSignDataByOrderNo on a goroutine
PostStart(h) ==
    /\ ~fatal
    /\ handlers[h].pc = "idle"
    /\ Len(replies) + Cardinality(Active) < MaxRequests
    /\ \E body \in PostBodies :
          handlers' = [handlers EXCEPT
                         ![h] = [pc |-> "ReadAll", body |-> body,
                                 data |-> NoData, signed |-> FALSE,
                                 from |-> Len(stores)]]
    /\ UNCHANGED <<serverResult, fatal, stores, replies, debugBlock>>

\* body, err := io.ReadAll(r.Body); err = json.Unmarshal(body, &requestData)
PostDecode(h) ==
    /\ ~fatal
    /\ handlers[h].pc = "ReadAll"
    /\ UNCHANGED <<serverResult, fatal, stores, debugBlock>>
    /\ IF handlers[h].body.kind = "unreadable"
       THEN Reply(h, Response(h, "POST", FALSE, "read error", NoData))
       ELSE IF handlers[h].body.kind = "undecodable"
       THEN Reply(h, Response(h, "POST", FALSE, "decode error", NoData))
       ELSE /\ handlers' = [handlers EXCEPT ![h].pc = "Lookup"]
            /\ UNCHANGED replies

\* if value, ok := s.result[requestData.RefOrderId]; ok { ... return }
PostLookup(h) ==
    /\ ~fatal
    /\ handlers[h].pc = "Lookup"
    /\ UNCHANGED <<serverResult, fatal, stores, debugBlock>>
    /\ IF Exists(serverResult, handlers[h].body.RefOrderId)
       THEN Reply(h, Response(h, "POST", FALSE, "already exist", NoData))
       ELSE /\ handlers' = [handlers EXCEPT ![h].pc = "Sign"]
            /\ UNCHANGED replies

\* err, data := s.signSeq(requestData) / s.signAgg(requestData), or the
\* rejection of another operate type
PostSign(h) ==
    /\ ~fatal
    /\ handlers[h].pc = "Sign"
    /\ UNCHANGED <<serverResult, fatal, stores, debugBlock>>
    /\ IF handlers[h].body.OperateType \in {OperateTypeSeq, OperateTypeAgg}
       THEN \/ Reply(h, [Response(h, "POST", FALSE, "sign error", NoData)
                            EXCEPT !.signed = TRUE])
            \/ /\ \E nonce \in 0..MaxNonce :
                    handlers' =
                      [handlers EXCEPT
                         ![h].pc = "Store",
                         ![h].signed = TRUE,
                         ![h].data = SignedTx(handlers[h].body, nonce)]
               /\ UNCHANGED replies
       ELSE Reply(h, Response(h, "POST", FALSE, "error operateType", NoData))

\* response.Code = CodeSuccess; response.Success = true;
\* s.result[requestData.RefOrderId] = data; sendJSONResponse(w, response)
PostStore(h) ==
    /\ ~fatal
    /\ handlers[h].pc = "Store"
    /\ serverResult' = Store(serverResult, handlers[h].body.RefOrderId,
                            handlers[h].data)
    /\ stores' = Append(stores, [id |-> handlers[h].body.RefOrderId,
                                  data |-> handlers[h].data])
    /\ Reply(h, Response(h, "POST", TRUE, "", NoData))
    /\ UNCHANGED <<fatal, debugBlock>>

\* net/http hands a GET to GetSignDataByOrderNo on a goroutine
GetStart(h) ==
    /\ ~fatal
    /\ handlers[h].pc = "idle"
    /\ Len(replies) + Cardinality(Active) < MaxRequests
    /\ \E id \in OrderIds :
          handlers' = [handlers EXCEPT
                         ![h] = [pc |-> "Get", body |-> GetQuery(id),
                                 data |-> NoData, signed |-> FALSE,
                                 from |-> Len(stores)]]
    /\ UNCHANGED <<serverResult, fatal, stores, replies, debugBlock>>

\* if value, ok := s.result[orderID]; ok { ... } else { "not exist" }
GetLookup(h) ==
    /\ ~fatal
    /\ handlers[h].pc = "Get"
    /\ UNCHANGED <<serverResult, fatal, stores, debugBlock>>
    /\ IF Exists(serverResult, handlers[h].body.RefOrderId)
       THEN Reply(h, Response(h, "GET", TRUE, "",
                              serverResult[handlers[h].body.RefOrderId]))
       ELSE Reply(h, Response(h, "GET", FALSE, "not exist", NoData))

\* Server.result is a plain map used without a lock: a write that overlaps
\* another access of the map is a data race, which the run-time may detect
\* and answer by stopping the process ("concurrent map writes",
\* "concurrent map read and map write")
Throw ==
    /\ ~fatal
    /\ \E writer \in Handlers, other \in Handlers :
          /\ writer # other
          /\ handlers[writer].pc = "Store"
          /\ handlers[other].pc \in {"Lookup", "Store", "Get"}
    /\ fatal' = TRUE
    /\ UNCHANGED <<serverResult, handlers, stores, replies, debugBlock>>

InitService ==
    /\ NewServer
    /\ blockNumber = 0
    /\ traceConfig = [Tracer |-> "default", DisableStorage |-> FALSE,
                      DisableStack |-> FALSE, EnableMemory |-> FALSE,
                      EnableReturnData |-> FALSE]
    /\ NotEntered

\* the handlers run concurrently, one goroutine per request
NextService ==
    \/ \E h \in Handlers : PostStart(h)
    \/ \E h \in Handlers : PostDecode(h)
    \/ \E h \in Handlers : PostLookup(h)
    \/ \E h \in Handlers : PostSign(h)
    \/ \E h \in Handlers : PostStore(h)
    \/ \E h \in Handlers : GetStart(h)
    \/ \E h \in Handlers : GetLookup(h)
    \/ Throw

SpecService == InitService /\ [][NextService]_vars

\* a request arrives when no other request is being served
PostStartAlone(h) == Active = {} /\ PostStart(h)
GetStartAlone(h) == Active = {} /\ GetStart(h)

\* the requests are served one after the other
NextSequential ==
    \/ \E h \in Handlers : PostStartAlone(h)
    \/ \E h \in Handlers : PostDecode(h)
    \/ \E h \in Handlers : PostLookup(h)
    \/ \E h \in Handlers : PostSign(h)
    \/ \E h \in Handlers : PostStore(h)
    \/ \E h \in Handlers : GetStartAlone(h)
    \/ \E h \in Handlers : GetLookup(h)

SpecSequential == InitService /\ [][NextSequential]_vars

\* ================================================================== claims
Sent(call) == \E k \in 1..Len(calls) : calls[k] = call

CountCalls(S) == Cardinality({ k \in 1..Len(calls) : calls[k] \in S })

ConvertCalls == {"convertToProcessBatchResponse", "convertToProcessBatchResponseV2"}

\* the transaction responses of the converted response were obtained
ResponsesObtained ==
    /\ \E k \in 1..Len(calls) : calls[k] \in ConvertCalls
    /\ \A k \in 1..Len(failures) : failures[k].step \notin ConvertCalls
    /\ pc # "panic"

Returned == pc = "done"

\* C1: a nil error comes with as many results as the block has
\* transactions, and a number of transaction responses different from the
\* block's transaction count gives an error and no results.
C1_ResultCountEqualsTxCount ==
    /\ (Returned /\ retErr = ErrNil) =>
          Len(retResults) = Len(l2Block.Transactions)
    /\ (Returned /\ ResponsesObtained
          /\ Len(responses) # Len(l2Block.Transactions)) =>
          (retErr # ErrNil /\ retResults = <<>>)
    /\ pc = "TraceLoop" => Len(responses) = Len(l2Block.Transactions)

\* C2: DebugBlock returns either a nil error with the complete list, one
\* traced result per transaction of the block, or an error with no results.
C2_CompleteListOrError ==
    Returned =>
       \/ /\ retErr = ErrNil
          /\ Len(retResults) = Len(l2Block.Transactions)
          /\ \A i \in 1..Len(retResults) : retResults[i].TraceResult # {}
       \/ /\ retErr # ErrNil
          /\ retResults = <<>>

\* C3: the request shape is the one of the batch's side of the fork
\* boundary: ProcessBatch iff forkId < FORKID_ETROG, ProcessBatchV2 iff
\* forkId >= FORKID_ETROG, never both and never the other side's.
C3_ShapeFollowsForkId ==
    /\ request.shape = "V1" => forkId < FORKID_ETROG
    /\ request.shape = "V2" => forkId >= FORKID_ETROG
    /\ Sent("ProcessBatch") => (forkId < FORKID_ETROG /\ request.shape = "V1")
    /\ Sent("ProcessBatchV2") => (forkId >= FORKID_ETROG /\ request.shape = "V2")
    /\ CountCalls(ExecutorCalls) > 0 =>
          (Sent("ProcessBatch") <=> forkId < FORKID_ETROG)
    /\ ~(Sent("ProcessBatch") /\ Sent("ProcessBatchV2"))

C3_Witness ==
    /\ Returned /\ retErr = ErrNil
    /\ Sent("ProcessBatchV2")
    /\ forkId = FORKID_ETROG
    /\ Len(retResults) > 0

\* C4: the instrumentation context of the i-th result is built from the
\* i-th transaction of the block.
C4_ContextOfSameTransaction ==
    \A i \in 1..Len(results) :
       i <= Len(l2Block.Transactions) =>
          results[i].FullTrace.Context =
             {InstrumentationContext(l2Block.Transactions[i],
                                     l2Block.Transactions[i].signer,
                                     results[i], previousL2Block.Root)}

\* C5: a non-zero executor status ends the invocation with the mapped
\* error and no results, the failing request is in the audit log, and
\* nothing is reconciled, constructed or traced afterwards.
C5_ExecutorErrorIsTerminal ==
    \A r \in processBatchResponse :
       r.Error # 0 =>
          /\ Returned
          /\ retResults = <<>>
          /\ retErr = ExecutorErr(r.Error)
          /\ auditLog = <<[code |-> r.Error, request |-> request]>>
          /\ calls # <<>> /\ LastOf(calls) \in ExecutorCalls
          /\ responses = <<>>
          /\ results = <<>>

C5_Witness ==
    /\ Returned
    /\ \E r \in processBatchResponse : r.Error # 0
    /\ request.shape = "V2"
    /\ Len(auditLog) = 1

\* C6: in the post-boundary normal-block path an index (target block number
\* minus first block number of the batch) beyond the number of decoded
\* blocks gives a non-nil error and no results, before any executor call.
\* Stated for a decoded batch that has blocks and a target block not
\* before the batch's first block.
C6_IndexOutOfRangeIsAnError ==
    \A index \in rawL2BlockIndex :
       (Len(rawBatch.Blocks) > 0 /\ index >= 0
          /\ U64Gt(index, Len(rawBatch.Blocks))) =>
          /\ Returned
          /\ retErr # ErrNil
          /\ retResults = <<>>
          /\ CountCalls(ExecutorCalls) = 0

\* C7: in a post-boundary request ForcedBlockhashL1 is populated, with the
\* hash of the L1 block anchoring the batch, exactly when the target block
\* number is 1; otherwise the anchor data comes from the payload; the two
\* fields are never both populated.
C7_InjectedOnlyForBlockOne ==
    /\ request.shape = "V2" =>
          /\ request.ForcedBlockhashL1 # {} =>
                /\ l2Block.Number = 1
                /\ request.ForcedBlockhashL1 =
                      {L1BlockHash(VirtualBatch(batch.BatchNumber).BlockNumber)}
          /\ request.L1InfoTreeData # {} => l2Block.Number # 1
          /\ ~(request.ForcedBlockhashL1 # {} /\ request.L1InfoTreeData # {})
    /\ Sent("ProcessBatchV2") =>
          /\ request.ForcedBlockhashL1 # {} <=> l2Block.Number = 1
          /\ l2Block.Number = 1 =>
                /\ ~Sent("DecodeBatchV2")
                /\ ~Sent("GetL1InfoTreeDataFromBatchL2Data")
          /\ l2Block.Number # 1 =>
                /\ Sent("GetL1InfoTreeDataFromBatchL2Data")
                /\ ~Sent("GetVirtualBatch")
                /\ request.L1InfoTreeData =
                      L1DataV2Of(L1InfoTreeDataOf(request.BatchL2Data))

C7_Witness ==
    /\ Sent("ProcessBatchV2")
    /\ l2Block.Number = 1
    /\ request.ForcedBlockhashL1 # {}

FullCapture(tc) ==
    /\ tc.DisableStorage = cFalse
    /\ tc.DisableStack = cFalse
    /\ tc.EnableMemory = cTrue
    /\ tc.EnableReturnData = cTrue

\* C8: under a non-default tracer the trace configuration of the request
\* asks for full capture whatever the caller's toggles, in both shapes.
C8_NonDefaultTracerFullCapture ==
    (request.shape # "none" /\ ~IsDefaultTracer(traceConfig)) =>
       FullCapture(request.TraceConfig)

C8_Witness ==
    /\ Sent("ProcessBatch")
    /\ traceConfig.Tracer = "callTracer"
    /\ traceConfig.DisableStorage /\ traceConfig.DisableStack
    /\ ~traceConfig.EnableMemory /\ ~traceConfig.EnableReturnData
    /\ FullCapture(request.TraceConfig)

TracerConstructors == {"NewFourByteTracer", "NewCallTracer", "NewFlatCallTracer",
                       "NewNoopTracer", "NewPrestateTracer", "NewJsTracer"}

\* the steps C9 names: storage reads, codec calls, the executor call,
\* reconciliation, tracer construction
NamedSteps ==
    StorageReads \cup ExecutorCalls \cup ConvertCalls \cup TracerConstructors
      \cup {"EncodeTransactions", "DecodeBatchV2", "DecodeTxs", "SanityCheck"}

Tolerated(f) == f.step = "DecodeTxs" /\ f.err = ErrInvalidData

EndsInvocation(k) ==
    /\ Returned
    /\ retErr = failures[k].err
    /\ retErr # ErrNil
    /\ retResults = <<>>
    /\ k = Len(failures)
    /\ \A j \in 1..Len(calls) :
          j > failures[k].at => calls[j] \notin StorageReads \cup ExecutorCalls

\* C9 as stated: at most one executor call, and every failing step ends the
\* invocation with an error, with no storage read or executor call after it.
C9_EveryFailureIsTerminal ==
    /\ CountCalls(ExecutorCalls) <= 1
    /\ \A k \in 1..Len(failures) :
          failures[k].step \in NamedSteps => EndsInvocation(k)

\* C9 as amended: at most one executor call, and every failing step other
\* than the log-only DecodeTxs failing with ErrInvalidData ends the
\* invocation with an error, with no storage read or executor call after it.
C9_EveryFatalFailureIsTerminal ==
    /\ CountCalls(ExecutorCalls) <= 1
    /\ \A k \in 1..Len(failures) :
          (failures[k].step \in NamedSteps /\ ~Tolerated(failures[k])) =>
             EndsInvocation(k)

C9_Witness ==
    /\ Returned
    /\ Len(failures) = 2
    /\ Tolerated(failures[1])
    /\ failures[2].step = "NewCallTracer"
    /\ CountCalls(ExecutorCalls) = 1

\* the i-th result carries the outcome of the i-th transaction response
CarriesResponse(result, response) ==
    /\ result.CreateAddress = response.CreateAddress
    /\ result.GasLeft = response.GasLeft
    /\ result.GasUsed = response.GasUsed
    /\ result.ReturnValue = response.ReturnValue
    /\ result.StateRoot = response.StateRoot
    /\ result.FullTrace.Steps = response.FullTrace.Steps
    /\ result.TraceResult # {}

\* C10: the results are in transaction order: the i-th one carries the
\* outcome and raw trace of the executor's i-th transaction response and a
\* trace result, both while they are appended and when they are returned.
C10_ResultsInResponseOrder ==
    /\ Len(results) <= Len(responses)
    /\ \A i \in 1..Len(results) :
          /\ CarriesResponse(results[i], responses[i])
          /\ CarriesResponse(results[i], TxResponse(1, i))
    /\ (Returned /\ retErr = ErrNil) =>
          /\ retResults = results
          /\ Len(retResults) = Len(responses)

C10_Witness ==
    /\ Returned /\ retErr = ErrNil
    /\ Len(retResults) = MaxTxs
    /\ MaxTxs >= 2

\* C11: when the construction of a non-default tracer fails for a
\* transaction of the block, DebugBlock returns an error and no results,
\* whatever was traced before; the failed construction is the one that
\* follows the results traced so far and it is the last thing done.
C11_TracerConstructionFailureIsFatal ==
    \A k \in 1..Len(failures) :
       failures[k].step \in TracerConstructors =>
          /\ Returned
          /\ retErr # ErrNil
          /\ retResults = <<>>
          /\ k = Len(failures)
          /\ LastOf(calls) = failures[k].step
          /\ failures[k].at = Len(calls)
          /\ CountCalls(TracerConstructors) = Len(results) + 1
          /\ Len(results) < Len(responses)

C11_Witness ==
    /\ Returned
    /\ failures # <<>>
    /\ LastOf(failures).step \in TracerConstructors
    /\ Len(results) >= 1
    /\ retResults = <<>>

\* the transaction responses of every block response, in order
RECURSIVE Flatten(_)
Flatten(blockResponses) ==
    IF blockResponses = <<>> THEN <<>>
    ELSE Head(blockResponses).TransactionResponses
           \o Flatten(Tail(blockResponses))

\* C12: the list of transaction responses that is checked and traced is the
\* flattening of the reconciled response: the transaction responses of
\* every block response, in order.
C12_ResponsesAreTheFlattening ==
    \A converted \in convertedResponse :
       pc = "SanityCheck" => responses = Flatten(converted.BlockResponses)

\* C13: the percentage encoded with transaction i is derived from the gas
\* price of transaction i and the effective gas price of its own receipt
\* (the maximum percentage only when that price is empty), the list has one
\* entry per encoded transaction, and encoding never fails on a length
\* mismatch.  Stated for a block whose transactions were all charged the
\* effective gas price read from the receipt of the last one.
C13_PercentageOfSameTransaction ==
    /\ Len(effectivePercentage) = Len(txsToEncode)
    /\ \A i \in 1..Len(effectivePercentage) :
          effectivePercentage[i] =
             EgpPercentage(l2Block.Transactions[i].gasPrice,
                           The(receipt).EffectiveGasPrice)
    /\ \A k \in 1..Len(failures) :
          failures[k].step = "EncodeTransactions" =>
             failures[k].err # Err("ErrInvalidInput")

\* C14: the base fields of every request describe the state before the
\* target block: OldBatchNum is the number of the batch before the one that
\* contains the block, OldStateRoot the state root of the block before the
\* target block, OldAccInputHash the accumulated-input hash of that
\* preceding batch.  Stated for a block and a batch that have a predecessor.
C14_BaseFieldsOfPrecedingState ==
    (request.shape # "none" /\ blockNumber > 0 /\ batch.BatchNumber > 0) =>
       /\ request.OldBatchNum = batch.BatchNumber - 1
       /\ request.OldStateRoot = Header(blockNumber - 1).Root
       /\ request.OldAccInputHash = Batch(batch.BatchNumber - 1).AccInputHash

Toggle(set) == IF set THEN cTrue ELSE cFalse

\* C15: under the default tracer the trace configuration of the request
\* mirrors the caller's four toggles, in both request shapes, and a request
\* that asks for less than full capture is one of the default tracer.
C15_DefaultTracerMirrorsToggles ==
    request.shape # "none" =>
       /\ IsDefaultTracer(traceConfig) =>
             /\ request.TraceConfig.DisableStorage =
                   Toggle(traceConfig.DisableStorage)
             /\ request.TraceConfig.DisableStack =
                   Toggle(traceConfig.DisableStack)
             /\ request.TraceConfig.EnableMemory =
                   Toggle(traceConfig.EnableMemory)
             /\ request.TraceConfig.EnableReturnData =
                   Toggle(traceConfig.EnableReturnData)
       /\ ~FullCapture(request.TraceConfig) => IsDefaultTracer(traceConfig)

C15_Witness ==
    /\ Sent("ProcessBatch")
    /\ IsDefaultTracer(traceConfig)
    /\ traceConfig.DisableStorage /\ ~traceConfig.DisableStack
    /\ ~traceConfig.EnableMemory /\ traceConfig.EnableReturnData
    /\ request.TraceConfig.DisableStorage = cTrue
    /\ request.TraceConfig.EnableMemory = cFalse

ReplayCalls == TracerConstructors \cup {"NewFakeEVM", "buildTrace"}

\* C16: under the default tracer nothing is replayed and no native or
\* script tracer is constructed: every trace is parsed from the executor's
\* trace of that response.  Under a non-default tracer each result, in
\* order, has had one tracer constructed and one replay driven, in an
\* environment seeded with the gas price parsed from the context and a
\* storage view pinned to the state root of the batch.
C16_ReplayOnlyForNonDefaultTracer ==
    /\ IsDefaultTracer(traceConfig) =>
          /\ CountCalls(ReplayCalls) = 0
          /\ CountCalls({"ParseTrace"}) - Len(results) \in {0, 1}
          /\ \A i \in 1..Len(results) :
                results[i].TraceResult =
                   {[tracer |-> "structLogger",
                     of |-> responses[i].FullTrace.Steps,
                     stateRoot |-> Hash("none", 0),
                     gasPrice |-> 0]}
    /\ ~IsDefaultTracer(traceConfig) =>
          /\ CountCalls({"ParseTrace"}) = 0
          /\ CountCalls(TracerConstructors) - Len(results) \in {0, 1}
          /\ CountCalls({"buildTrace"}) - Len(results) \in {0, 1}
          /\ CountCalls({"NewFakeEVM"}) = CountCalls({"buildTrace"})
          /\ \A j \in 1..Len(calls) :
                calls[j] = "NewFakeEVM" =>
                   /\ calls[j - 1] = TracerConstructor(traceConfig)
                   /\ calls[j + 1] = "buildTrace"
          /\ \A i \in 1..Len(results) :
                results[i].TraceResult =
                   {[tracer |-> traceConfig.Tracer,
                     of |-> responses[i].FullTrace.Steps,
                     stateRoot |-> batch.StateRoot,
                     gasPrice |-> The(tx).gasPrice]}
          /\ (Returned /\ retErr = ErrNil) =>
                /\ CountCalls(TracerConstructors) = Len(retResults)
                /\ CountCalls({"buildTrace"}) = Len(retResults)

C16_Witness ==
    /\ Returned /\ retErr = ErrNil
    /\ traceConfig.Tracer = "prestateTracer"
    /\ Len(retResults) = 2
    /\ CountCalls({"NewFakeEVM"}) = 2

\* the payload is the boundary pseudo-transaction of the target block
\* (timestamp delta to the previous block, L1-info-tree index of the raw
\* block at position target - first) followed by the block's transactions
OpensWithBoundary(payload) ==
    LET position == l2Block.Number - firstBlockNumberForBatch
    IN  /\ Len(payload) = 1 + Len(l2Block.Transactions)
        /\ payload[1].kind = "changeL2Block"
        /\ payload[1].a = l2Block.Time - previousL2Block.Time
        /\ position >= 0 /\ position < Len(rawBatch.Blocks)
        /\ payload[1].b = rawBatch.Blocks[position + 1].IndexL1InfoTree
        /\ \A k \in 1..Len(l2Block.Transactions) :
              /\ payload[k + 1].kind = "tx"
              /\ payload[k + 1].a = l2Block.Transactions[k].hash
              /\ payload[k + 1].b = effectivePercentage[k]

\* C17 as stated: every post-boundary payload sent to the executor is the
\* synthesized boundary pseudo-transaction followed by the encoding of the
\* block's transactions.
C17_PayloadOpensWithBoundary ==
    Sent("ProcessBatchV2") => OpensWithBoundary(request.BatchL2Data)

\* C17 as amended: that holds for every target block other than block 1;
\* for block 1 the payload is the stored payload of the batch, unchanged.
C17_PayloadOpensWithBoundaryUnlessInjected ==
    Sent("ProcessBatchV2") =>
       IF l2Block.Number = 1
       THEN request.BatchL2Data = batch.BatchL2Data
       ELSE OpensWithBoundary(request.BatchL2Data)

C17_Witness ==
    /\ Sent("ProcessBatchV2")
    /\ l2Block.Number = 2
    /\ firstBlockNumberForBatch = 1
    /\ Len(rawBatch.Blocks) = 2
    /\ Len(request.BatchL2Data) = 3
    /\ request.BatchL2Data[1].b = 1

\* the anchor data of the payload was resolved without error
AnchorResolved ==
    /\ Sent("GetL1InfoTreeDataFromBatchL2Data")
    /\ \A k \in 1..Len(failures) :
          failures[k].step # "GetL1InfoTreeDataFromBatchL2Data"

\* C18: in the normal-block post-boundary path the request carries
\* L1InfoTreeData and asks to skip the L1-info-root verification iff the
\* data resolved from the payload is non-empty; it then has one entry per
\* resolved index, with the same global exit root, L1 block hash and
\* minimum timestamp; with empty data neither field is set.
C18_AnchorDataAttachedIffResolved ==
    AnchorResolved =>
       LET resolved == L1InfoTreeDataOf(transactions)
       IN  /\ request.L1InfoTreeData # {} <=> resolved # {}
           /\ request.SkipVerifyL1InfoRoot = cTrue <=> resolved # {}
           /\ resolved = {} => request.SkipVerifyL1InfoRoot = cFalse
           /\ Cardinality(request.L1InfoTreeData) = Cardinality(resolved)
           /\ \A v \in resolved :
                 \E entry \in request.L1InfoTreeData :
                    /\ entry.index = v.index
                    /\ entry.GlobalExitRoot = v.GlobalExitRoot
                    /\ entry.BlockHashL1 = v.BlockHashL1
                    /\ entry.MinTimestamp = v.MinTimestamp
           /\ request.ForcedBlockhashL1 = {}
           /\ request.BatchL2Data = transactions

C18_Witness ==
    /\ Sent("ProcessBatchV2")
    /\ AnchorResolved
    /\ Cardinality(request.L1InfoTreeData) = 1
    /\ request.SkipVerifyL1InfoRoot = cTrue

\* C19: a failure of the log-only decode other than ErrInvalidData ends the
\* invocation with that error and no results, nothing being called after
\* it; ErrInvalidData is never returned: the invocation goes on to the
\* reconciliation as after a successful decode, and a nil error still
\* comes with one result per response of the executor.
C19_OnlyInvalidDataIsTolerated ==
    \A k \in 1..Len(failures) :
       failures[k].step = "DecodeTxs" =>
          IF failures[k].err = ErrInvalidData
          THEN /\ retErr # ErrInvalidData
               /\ failures[k].at = Len(calls) =>
                     /\ pc \in {"ConvertV1", "ConvertV2"}
                     /\ retErr = ErrNil
                     /\ k = Len(failures)
               /\ (Returned /\ retErr = ErrNil) =>
                     /\ Len(retResults) = Len(responses)
                     /\ Len(retResults) = Len(l2Block.Transactions)
                     /\ \A i \in 1..Len(retResults) :
                           CarriesResponse(retResults[i], responses[i])
          ELSE /\ Returned
               /\ retErr = failures[k].err
               /\ retResults = <<>>
               /\ k = Len(failures)
               /\ failures[k].at = Len(calls)

C19_Witness ==
    /\ Returned /\ retErr = ErrNil
    /\ Len(failures) = 1
    /\ failures[1].step = "DecodeTxs"
    /\ failures[1].err = ErrInvalidData
    /\ Len(retResults) >= 1

\* what DebugBlock calls besides the storage and the executor: the codec,
\* the reconciliation, signature recovery and the tracers, all in memory
InMemoryCalls ==
    ConvertCalls \cup TracerConstructors
      \cup {"GetForkIDByBatchNumber", "EncodeTransactions", "DecodeBatchV2",
            "DecodeTxs", "GetSender", "ParseTrace", "NewFakeEVM",
            "buildTrace"}

\* C20: DebugBlock never mutates persisted chain state: every call it makes
\* to storage is a read query, and every executor request it builds or
\* records, of either shape, has UpdateMerkleTree disabled, whether the
\* invocation succeeds or fails.
C20_ChainStateIsOnlyRead ==
    /\ \A k \in 1..Len(calls) :
          calls[k] \in StorageReads \cup ExecutorCalls \cup InMemoryCalls
    /\ request.shape # "none" => request.UpdateMerkleTree = cFalse
    /\ \A k \in 1..Len(auditLog) :
          auditLog[k].request.UpdateMerkleTree = cFalse

C20_Witness ==
    /\ Returned /\ retErr # ErrNil
    /\ Sent("ProcessBatchV2")
    /\ request.UpdateMerkleTree = cFalse
    /\ CountCalls(StorageReads) >= 5

\* C21: in the normal-block post-boundary path the raw block is never
\* selected with an index outside the decoded batch: with a decoded batch
\* of zero blocks, or a target block before the batch's first block (the
\* unsigned subtraction wraps), the invocation ends with an error and no
\* results, and it never stops on an out-of-range index.
C21_RawBlockIndexInRange ==
    \A index \in rawL2BlockIndex :
       /\ pc = "panic" => Sent("ProcessBatchV2")
       /\ (Len(rawBatch.Blocks) = 0 \/ index < 0) =>
             /\ Returned
             /\ retErr # ErrNil
             /\ retResults = <<>>

KnownTracers == {"default", "4byteTracer", "callTracer", "flatCallTracer",
                 "noopTracer", "prestateTracer", "js"}

\* the count check was passed and no step before the tracer selection
\* returned an error that ends the invocation
ReachedTraceLoop ==
    /\ CountCalls(ExecutorCalls) = 1
    /\ ResponsesObtained
    /\ convertedResponse = {}
    /\ Len(responses) = Len(l2Block.Transactions)
    /\ \A k \in 1..Len(failures) :
          Tolerated(failures[k]) \/ failures[k].step = "SelectTracer"

\* C22 as stated: with a tracer name outside the known ones, an invocation
\* whose other steps succeed returns the invalid-tracer error and no
\* results, whatever the number of transactions of the block.
C22_UnknownTracerIsRejected ==
    traceConfig.Tracer \notin KnownTracers =>
       /\ results = <<>>
       /\ CountCalls(TracerConstructors \cup {"ParseTrace", "NewFakeEVM"}) = 0
       /\ (Returned /\ ReachedTraceLoop) =>
             /\ retErr = Err("ErrInvalidTracer")
             /\ retResults = <<>>

\* C22 as amended: that holds for a block of at least one transaction; for
\* a block without transactions the tracer is never selected and the
\* invocation returns an empty list and a nil error.
C22_UnknownTracerIsRejectedPerTransaction ==
    traceConfig.Tracer \notin KnownTracers =>
       /\ results = <<>>
       /\ CountCalls(TracerConstructors \cup {"ParseTrace", "NewFakeEVM"}) = 0
       /\ (Returned /\ ReachedTraceLoop) =>
             /\ retResults = <<>>
             /\ IF Len(l2Block.Transactions) > 0
                THEN /\ retErr = Err("ErrInvalidTracer")
                     /\ LastOf(failures).step = "SelectTracer"
                ELSE /\ retErr = ErrNil
                     /\ \A k \in 1..Len(failures) : Tolerated(failures[k])

C22_Witness ==
    /\ traceConfig.Tracer \notin KnownTracers
    /\ Returned /\ ReachedTraceLoop
    /\ Len(l2Block.Transactions) = 2
    /\ retErr = Err("ErrInvalidTracer")

\* the block was loaded and has no transactions
EmptyBlockLoaded ==
    /\ pc # "GetL2Block"
    /\ Sent("GetL2BlockByNumber")
    /\ (failures = <<>> \/ failures[1].at > 1)
    /\ Len(l2Block.Transactions) = 0

C24_NoBlockResponseIsHandled ==
    \A converted \in convertedResponse :
       Len(converted.BlockResponses) = 0 => pc # "panic"

\* ------------------------------------------------------------------ C25
\* C25: under any interleaving of POST handlers running concurrently with the
\* same RefOrderId, at most one of them signs and stores a result for that
\* id, every other one being answered "already exist": for every order id,
\* at most one payload is ever written to Server.result and at most one
\* POST for it is answered with success.
StoresOf(id) == {i \in DOMAIN stores : stores[i].id = id}

SuccessfulPostsOf(id) ==
    {k \in DOMAIN replies : /\ replies[k].method = "POST"
                            /\ replies[k].id = id
                            /\ replies[k].Success}

C25_AtMostOnePostSignsAndStores ==
    \A id \in OrderIds :
        /\ Cardinality(StoresOf(id)) <= 1
        /\ Cardinality(SuccessfulPostsOf(id)) <= 1

\* ------------------------------------------------------------------ C26
\* C26: when the requests are served one after the other, a payload stored
\* for an order id is never overwritten or removed (the map holds, for every
\* id ever stored, the one payload stored for it); a GET for a stored id
\* succeeds with exactly that payload and a GET for another id fails with
\* "not exist"; a POST for a stored id is rejected with "already exist"
\* without signing; and only a successful POST changes the store, by the one
\* payload of its id.
StoredBefore(r) == {i \in 1..r.from : stores[i].id = r.id}

C26_StoredPayloadIsPermanent ==
    /\ DOMAIN serverResult = {stores[i].id : i \in DOMAIN stores}
    /\ \A i \in DOMAIN stores :
          /\ serverResult[stores[i].id] = stores[i].data
          /\ StoresOf(stores[i].id) = {i}
    /\ \A k \in DOMAIN replies :
          LET r == replies[k] IN
          /\ r.method = "GET" /\ StoredBefore(r) # {}
                => /\ r.Success
                   /\ r.Code = CodeSuccess
                   /\ \A i \in StoredBefore(r) : r.Data = stores[i].data
          /\ r.method = "GET" /\ StoredBefore(r) = {}
                => /\ ~r.Success
                   /\ r.Code = CodeFail
                   /\ r.DetailMsg = "not exist"
          /\ r.method = "POST" /\ StoredBefore(r) # {}
                => /\ ~r.Success
                   /\ r.DetailMsg = "already exist"
                   /\ ~r.signed
          /\ r.method = "GET" \/ ~r.Success => r.at = r.from
          /\ r.method = "POST" /\ r.Success
                => /\ r.at = r.from + 1
                   /\ stores[r.at].id = r.id
                   /\ r.signed

\* a POST has stored a payload, a later GET has returned it and a later POST
\* for the same id has been rejected
C26_Witness ==
    /\ Len(replies) = 3
    /\ replies[1].method = "POST" /\ replies[1].Success
    /\ replies[2].method = "GET" /\ replies[2].id = replies[1].id
    /\ replies[2].Success /\ replies[2].Data = stores[1].data
    /\ replies[3].method = "POST" /\ replies[3].id = replies[1].id
    /\ replies[3].DetailMsg = "already exist"
====
